---- MODULE Spec2Model ----
(***************************************************************************)
(* A model of sawtooth_rest_api/route_handlers.py (class RouteHandler).    *)
(*                                                                         *)
(* Three state machines share the module:                                  *)
(*   Spec / FairSpec : several requests in flight through                  *)
(*                     _try_validator_request over the shared Stream.      *)
(*   HandlerSpec     : one request taken through a whole handler           *)
(*                     (submit_batches, list_statuses, list_batches,       *)
(*                     fetch_batch, fetch_block): input checks, the query  *)
(*                     sent, the reply, _try_response_parse and the        *)
(*                     envelope.                                           *)
(*   WalkSpec        : a client paging through a listing: each next link   *)
(*                     list_batches emits becomes the next request.        *)
(***************************************************************************)
EXTENDS Integers, Sequences, FiniteSets, TLC

VARIABLES
    \* ---- the gateway (_try_validator_request, Stream) ----
    pc,         \* pc[r]: "ready" | "awaiting" | "done", the task's position
    content,    \* content[r]: the serialized query r sent (None before the send)
    future,     \* future[r]: correlation id of the future Stream.send gave to r
    futures,    \* futures[c]: the Stream's future for correlation id c
    network,    \* queries the backing node holds and has not answered yet
    nextCorr,   \* next correlation id Stream.send assigns
    connected,  \* the transport is connected
    outcome,    \* outcome[r]: None, or what _try_validator_request gave r
    sends,      \* sends[r]: number of Stream.send calls made for r
    \* ---- one handler run ----
    hpc,        \* "idle" | "received" | "awaiting" | "replied" | "done"
    request,    \* the HTTP request being handled
    controls,   \* paging_controls of a list handler
    sent,       \* the queries sent to the backing node, oldest first
    reply,      \* the decoded reply of the backing node
    result      \* the HTTP response or the error raised

gvars == <<pc, content, future, futures, network, nextCorr, connected, outcome, sends>>
hvars == <<hpc, request, controls, sent, reply, result>>
vars == <<gvars, hvars>>

None == [kind |-> "None"]
Unsent == "unsent"

-----------------------------------------------------------------------------
(* Bounds                                                                  *)

MaxReq == 3

Requests == 1..MaxReq
CorrIds == 1..MaxReq

-----------------------------------------------------------------------------
(* The gateway: RouteHandler._try_validator_request over the Stream        *)

Unset == [kind |-> "unset"]
FutureError == [kind |-> "FutureError"]
FutureResult(c, k) == [kind |-> "FutureResult", content |-> c, corr |-> k]

\* content.SerializeToString(): the bytes of the query request r sends; the
\* requests in flight carry different queries.
Serialized(r) == <<"query", r>>

\* What the backing node answers to a query.
ReplyTo(c) == <<"reply", c>>

ServiceUnavailable == [kind |-> "ServiceUnavailable"]
Returned(res) == [kind |-> "content", content |-> res.content, corr |-> res.corr]

\* A future shared by all tasks (the one of the latest send) instead of the
\* one Stream.send returned to this task.
AwaitedFutureShared(r) == nextCorr - 1

\* future = self._stream.send(...); ... future.result: the task awaits the
\* future its own send returned (a local variable of the coroutine).
AwaitedFuture(r) == future[r]

\* ValidatorConnectionError escaping instead of being converted.
OnConnectionErrorUncaught == [kind |-> "ValidatorConnectionError"]

\* except ValidatorConnectionError: raise errors.ValidatorUnavailable()
OnConnectionError == ServiceUnavailable

\* except FutureTimeoutError: raise errors.ValidatorUnavailable()
OnTimeout == ServiceUnavailable

GatewayInit ==
    /\ pc = [r \in Requests |-> "ready"]
    /\ content = [r \in Requests |-> <<Unsent>>]
    /\ future = [r \in Requests |-> 0]
    /\ futures = [c \in CorrIds |-> Unset]
    /\ network = {}
    /\ nextCorr = 1
    /\ connected = TRUE
    /\ outcome = [r \in Requests |-> None]
    /\ sends = [r \in Requests |-> 0]

\* Stream.send: a fresh correlation id, a future registered under it, the
\* message handed to the transport.
StreamSend(r, c) ==
    /\ future' = [future EXCEPT ![r] = nextCorr]
    /\ nextCorr' = nextCorr + 1
    /\ network' = IF connected THEN network \cup {[corr |-> nextCorr, content |-> c]}
                  ELSE network

\* _try_validator_request up to its await: serialize, send once, suspend.
Send(r) ==
    /\ pc[r] = "ready"
    /\ nextCorr <= MaxReq
    /\ content' = [content EXCEPT ![r] = Serialized(r)]
    /\ StreamSend(r, Serialized(r))
    /\ sends' = [sends EXCEPT ![r] = @ + 1]
    /\ pc' = [pc EXCEPT ![r] = "awaiting"]
    /\ UNCHANGED <<futures, connected, outcome>>
    /\ UNCHANGED hvars

\* The backing node answers one of the queries it holds, in any order; the
\* Stream's receive path resolves the future registered under the reply's
\* correlation id.
ValidatorReply ==
    /\ connected
    /\ \E m \in network :
        /\ network' = network \ {m}
        /\ futures' = [futures EXCEPT ![m.corr] = FutureResult(ReplyTo(m.content), m.corr)]
    /\ UNCHANGED <<pc, content, future, nextCorr, connected, outcome, sends>>
    /\ UNCHANGED hvars

\* The transport disconnects: every unresolved future resolves to FutureError.
Disconnect ==
    /\ connected
    /\ connected' = FALSE
    /\ network' = {}
    /\ futures' = [c \in CorrIds |->
                     IF c < nextCorr /\ futures[c] = Unset THEN FutureError ELSE futures[c]]
    /\ UNCHANGED <<pc, content, future, nextCorr, outcome, sends>>
    /\ UNCHANGED hvars

\* future.result(self._timeout) times out: FutureTimeoutError.
Timeout(r) ==
    /\ pc[r] = "awaiting"
    /\ futures[AwaitedFuture(r)] = Unset
    /\ outcome' = [outcome EXCEPT ![r] = OnTimeout]
    /\ pc' = [pc EXCEPT ![r] = "done"]
    /\ UNCHANGED <<content, future, futures, network, nextCorr, connected, sends>>
    /\ UNCHANGED hvars

\* future.result returns; response.content is the reply's content, or raises
\* ValidatorConnectionError when the future resolved to FutureError.
Resolve(r) ==
    /\ pc[r] = "awaiting"
    /\ futures[AwaitedFuture(r)] # Unset
    /\ LET res == futures[AwaitedFuture(r)] IN
        outcome' = [outcome EXCEPT ![r] =
                      IF res.kind = "FutureError" THEN OnConnectionError ELSE Returned(res)]
    /\ pc' = [pc EXCEPT ![r] = "done"]
    /\ UNCHANGED <<content, future, futures, network, nextCorr, connected, sends>>
    /\ UNCHANGED hvars

Await(r) == Timeout(r) \/ Resolve(r)

-----------------------------------------------------------------------------
(* Text: a Python str is a sequence of one-character strings               *)

\* A query parameter that is not in the URL (query.get(..., None)).
NoText == <<"None">>

Digits == {"0", "1", "2", "3", "4", "5", "6", "7", "8", "9"}

DigitValue(ch) ==
    CASE ch = "0" -> 0 [] ch = "1" -> 1 [] ch = "2" -> 2 [] ch = "3" -> 3
      [] ch = "4" -> 4 [] ch = "5" -> 5 [] ch = "6" -> 6 [] ch = "7" -> 7
      [] ch = "8" -> 8 [] ch = "9" -> 9

IsDigits(t) == Len(t) > 0 /\ \A i \in 1..Len(t) : t[i] \in Digits

RECURSIVE DigitsValue(_)
DigitsValue(t) ==
    IF t = <<>> THEN 0
    ELSE 10 * DigitsValue(SubSeq(t, 1, Len(t) - 1)) + DigitValue(t[Len(t)])

\* int(text) raises ValueError unless the text is digits with an optional sign.
IsIntText(t) ==
    \/ IsDigits(t)
    \/ Len(t) > 1 /\ t[1] \in {"-", "+"} /\ IsDigits(Tail(t))

\* int(text), for a text int() accepts.
IntOfText(t) ==
    IF t[1] = "-" THEN 0 - DigitsValue(Tail(t))
    ELSE IF t[1] = "+" THEN DigitsValue(Tail(t))
    ELSE DigitsValue(t)

LowerChar(ch) ==
    CASE ch = "F" -> "f" [] ch = "A" -> "a" [] ch = "L" -> "l" [] ch = "S" -> "s"
      [] ch = "E" -> "e" [] ch = "T" -> "t" [] ch = "R" -> "r" [] ch = "U" -> "u"
      [] OTHER -> ch

\* str.lower()
Lower(t) == [i \in 1..Len(t) |-> LowerChar(t[i])]

\* str.split(','): the pieces between commas, empty pieces kept.
RECURSIVE SplitComma(_, _, _)
SplitComma(t, piece, pieces) ==
    IF t = <<>> THEN Append(pieces, piece)
    ELSE IF Head(t) = "," THEN SplitComma(Tail(t), <<>>, Append(pieces, piece))
    ELSE SplitComma(Tail(t), Append(piece, Head(t)), pieces)

Split(t) == SplitComma(t, <<>>, <<>>)

\* A Python dict is a function on its keys; {} is the empty function.
EmptyDict == <<>>
HasKey(d, k) == k \in DOMAIN d

RECURSIVE NatText(_)
NatText(n) ==
    LET d == CHOOSE ch \in Digits : DigitValue(ch) = n % 10
    IN IF n < 10 THEN <<d>> ELSE Append(NatText(n \div 10), d)

\* '{}'.format(n) of an int
TextOfInt(n) == IF n < 0 THEN <<"-">> \o NatText(0 - n) ELSE NatText(n)

-----------------------------------------------------------------------------
(* Paging: _get_paging_controls, _make_paging_message                      *)

Error(kind) == [kind |-> "error", error |-> kind]
IsError(x) == x.kind = "error"

\* if count == '0': raise BadCount(); elif count is not None: int(count),
\* ValueError -> BadCount()
CountIsBad(count) ==
    \/ count = <<"0">>
    \/ count # NoText /\ ~IsIntText(count)

CountControls(count) ==
    IF count # NoText THEN "count" :> IntOfText(count) ELSE EmptyDict

\* `if max_pos is not None` in place of `elif`: max parsed even when min is given
PositionControlsBoth(min_pos, max_pos) ==
    (IF min_pos = NoText THEN EmptyDict
     ELSE IF IsIntText(min_pos) THEN "start_index" :> IntOfText(min_pos)
     ELSE "start_id" :> min_pos)
    @@
    (IF max_pos = NoText THEN EmptyDict
     ELSE IF IsIntText(max_pos) THEN "end_index" :> IntOfText(max_pos)
     ELSE "end_id" :> max_pos)

\* if min_pos is not None: start_index or start_id;
\* elif max_pos is not None: end_index or end_id
PositionControls(min_pos, max_pos) ==
    IF min_pos # NoText
    THEN IF IsIntText(min_pos) THEN "start_index" :> IntOfText(min_pos)
         ELSE "start_id" :> min_pos
    ELSE IF max_pos # NoText
    THEN IF IsIntText(max_pos) THEN "end_index" :> IntOfText(max_pos)
         ELSE "end_id" :> max_pos
    ELSE EmptyDict

\* _get_paging_controls(request): the controls dict, or BadCount raised
get_paging_controls(req) ==
    IF CountIsBad(req.count) THEN Error("BadCount")
    ELSE [kind |-> "ok",
          controls |-> CountControls(req.count) @@ PositionControls(req.min, req.max)]

\* start_index = end_index - count: the window ends one before end_index
IndexWindowOffByOne(c) ==
    IF ~HasKey(c, "count") THEN [start_index |-> 0, count |-> c.end_index]
    ELSE IF c.count > c.end_index + 1 THEN [start_index |-> 0, count |-> c.end_index + 1]
    ELSE [start_index |-> c.end_index - c.count, count |-> c.count]

\* an end_index must be changed to start_index, possibly modifying count
IndexWindow(c) ==
    IF ~HasKey(c, "count") THEN [start_index |-> 0, count |-> c.end_index]
    ELSE IF c.count > c.end_index + 1 THEN [start_index |-> 0, count |-> c.end_index + 1]
    ELSE [start_index |-> c.end_index + 1 - c.count, count |-> c.count]

\* _make_paging_message(controls): the PagingControls record; a field given
\* None keeps its default ('' or 0)
make_paging_message(c) ==
    LET w == IF HasKey(c, "end_index") THEN IndexWindow(c)
             ELSE [start_index |-> IF HasKey(c, "start_index") THEN c.start_index ELSE 0,
                   count |-> IF HasKey(c, "count") THEN c.count ELSE 0]
    IN [start_id |-> IF HasKey(c, "start_id") THEN c.start_id ELSE <<>>,
        end_id |-> IF HasKey(c, "end_id") THEN c.end_id ELSE <<>>,
        start_index |-> w.start_index,
        count |-> w.count]

-----------------------------------------------------------------------------
(* Replies: _try_response_parse and the error traps                        *)

\* The status enumerants each reply type defines.
StatusEnum(proto) ==
    CASE proto = "ClientBatchSubmitResponse" -> {"OK", "INTERNAL_ERROR", "INVALID_BATCH"}
      [] proto = "ClientBatchStatusResponse" -> {"OK", "INTERNAL_ERROR", "NO_RESOURCE"}
      [] proto = "ClientBatchListResponse" ->
            {"OK", "INTERNAL_ERROR", "NOT_READY", "NO_ROOT", "NO_RESOURCE", "INVALID_PAGING"}
      [] proto = "ClientBatchGetResponse" -> {"OK", "INTERNAL_ERROR", "NO_RESOURCE"}
      [] proto = "ClientBlockGetResponse" -> {"OK", "INTERNAL_ERROR", "NO_RESOURCE"}

\* An error trap: check(status) raises `kind` when status = code.
Trap(code, kind) == [code |-> code, kind |-> kind]

\* The traps each handler passes to _query_validator.
HandlerTraps(handler) ==
    CASE handler = "submit_batches" -> <<Trap("INVALID_BATCH", "InvalidBatch")>>
      [] handler = "list_statuses" -> <<Trap("NO_RESOURCE", "StatusesNotReturned")>>
      [] handler = "list_batches" -> <<>>
      [] handler = "fetch_batch" -> <<Trap("NO_RESOURCE", "MissingBatch")>>
      [] handler = "fetch_block" -> <<Trap("NO_RESOURCE", "MissingBlock")>>

ResponseProto(handler) ==
    CASE handler = "submit_batches" -> "ClientBatchSubmitResponse"
      [] handler = "list_statuses" -> "ClientBatchStatusResponse"
      [] handler = "list_batches" -> "ClientBatchListResponse"
      [] handler = "fetch_batch" -> "ClientBatchGetResponse"
      [] handler = "fetch_block" -> "ClientBlockGetResponse"

\* traps.append(...) under try/except AttributeError: a common trap is
\* registered only when the reply type has the enumerant.
CommonTraps(proto) ==
    SelectSeq(<<Trap("INTERNAL_ERROR", "Unknown"),
                Trap("NOT_READY", "NotReady"),
                Trap("NO_ROOT", "MissingHead"),
                Trap("INVALID_PAGING", "InvalidPaging")>>,
              LAMBDA t : t.code \in StatusEnum(proto))

\* for trap in traps: trap.check(parsed.status): the first trap registered
\* for the status raises; 0 when none is.
FirstMatch(traps, status) ==
    LET hits == {i \in 1..Len(traps) : traps[i].code = status}
    IN IF hits = {} THEN 0 ELSE CHOOSE i \in hits : \A j \in hits : i <= j

\* traps = [] in place of `traps or []`: the handler's traps are dropped
try_response_parse_common_only(proto, response, traps) ==
    LET all == CommonTraps(proto)
        hit == FirstMatch(all, response.status)
    IN IF hit # 0 THEN Error(all[hit].kind) ELSE [kind |-> "ok", dict |-> response]

\* _try_response_parse(proto, response, traps): the raised error of the first
\* matching trap, else message_to_dict(parsed)
try_response_parse(proto, response, traps) ==
    LET all == traps \o CommonTraps(proto)
        hit == FirstMatch(all, response.status)
    IN IF hit # 0 THEN Error(all[hit].kind) ELSE [kind |-> "ok", dict |-> response]

\* _wrap_response(data, metadata, status): data is left out when None
wrap_response(data, metadata, status) ==
    [kind |-> "response",
     status |-> status,
     envelope |-> IF data # None THEN metadata @@ ("data" :> data) ELSE metadata]

-----------------------------------------------------------------------------
(* Envelopes: _build_url, _wrap_paginated_response                         *)

NoHead == "None"

\* str(request.url): the URL as the client sent it
RequestUrl(req) ==
    [head |-> req.head, min |-> req.min, max |-> req.max, count |-> req.count, id |-> req.id]

\* _build_url(request, head, count, min_pos, max_pos): the URL as its query
\* parameters. Without a head it is the request's URL; a paging URL carries
\* head, min or max, and count, and drops the request's own min, max, count.
build_url(req, head, count, min_pos, max_pos) ==
    IF head = NoHead THEN RequestUrl(req)
    ELSE IF min_pos # NoText
    THEN [head |-> head, min |-> min_pos, max |-> NoText, count |-> count, id |-> req.id]
    ELSE IF max_pos # NoText
    THEN [head |-> head, min |-> NoText, max |-> max_pos, count |-> count, id |-> req.id]
    ELSE [head |-> head, min |-> req.min, max |-> req.max, count |-> req.count, id |-> req.id]

\* count = controls.get('count', len(data))
PageCount(ctl, data) == IF HasKey(ctl, "count") THEN ctl.count ELSE Len(data.items)

\* Build paging urls based on ids
CursorLinks(req, head, ctl, pr, count) ==
    (IF pr.next_id # <<>>
     THEN "next" :> build_url(req, head, TextOfInt(count), pr.next_id, NoText)
     ELSE EmptyDict)
    @@
    (IF pr.previous_id # <<>>
     THEN "previous" :> build_url(req, head, TextOfInt(count), NoText, pr.previous_id)
     ELSE EmptyDict)

\* `<=` in place of `<` in both comparisons with total
IndexNextLinkInclusive(req, head, ctl, start, total, count) ==
    IF ~HasKey(ctl, "end_index") /\ start + count <= total
    THEN "next" :> build_url(req, head, TextOfInt(count), TextOfInt(start + count), NoText)
    ELSE IF HasKey(ctl, "end_index") /\ ctl.end_index + 1 <= total
    THEN "next" :> build_url(req, head, TextOfInt(count), TextOfInt(ctl.end_index + 1), NoText)
    ELSE EmptyDict

\* `start + count + 1` in place of `start + count` in the next link
IndexNextLinkSkipsOne(req, head, ctl, start, total, count) ==
    IF ~HasKey(ctl, "end_index") /\ start + count < total
    THEN "next" :> build_url(req, head, TextOfInt(count), TextOfInt(start + count + 1), NoText)
    ELSE IF HasKey(ctl, "end_index") /\ ctl.end_index + 1 < total
    THEN "next" :> build_url(req, head, TextOfInt(count), TextOfInt(ctl.end_index + 1), NoText)
    ELSE EmptyDict

\* if end_index is None and start + count < total: next at start + count
\* elif end_index is not None and end_index + 1 < total: next at end_index + 1
IndexNextLink(req, head, ctl, start, total, count) ==
    IF ~HasKey(ctl, "end_index") /\ start + count < total
    THEN "next" :> build_url(req, head, TextOfInt(count), TextOfInt(start + count), NoText)
    ELSE IF HasKey(ctl, "end_index") /\ ctl.end_index + 1 < total
    THEN "next" :> build_url(req, head, TextOfInt(count), TextOfInt(ctl.end_index + 1), NoText)
    ELSE EmptyDict

\* if start - count >= 0: previous at start - count
IndexPreviousLink(req, head, start, count) ==
    IF start - count >= 0
    THEN "previous" :> build_url(req, head, TextOfInt(count), TextOfInt(start - count), NoText)
    ELSE EmptyDict

\* without `if total == 0: return`: an empty listing is paged like any other
PagingMetadataNoEmptyCheck(req, response, ctl, data) ==
    LET head == response.head_id
        pr == response.paging
        total == pr.total_resources
        count == PageCount(ctl, data)
        start == pr.start_index
    IN ("total_count" :> total) @@ ("start_index" :> start) @@
       (IF HasKey(ctl, "start_id") \/ HasKey(ctl, "end_id")
        THEN CursorLinks(req, head, ctl, pr, count)
        ELSE IndexNextLink(req, head, ctl, start, total, count)
             @@ IndexPreviousLink(req, head, start, count))

\* The paging metadata _wrap_paginated_response builds.
PagingMetadata(req, response, ctl, data) ==
    LET head == response.head_id
        pr == response.paging
        total == pr.total_resources
        count == PageCount(ctl, data)
        start == pr.start_index
    IN IF total = 0 THEN "total_count" :> total
       ELSE ("total_count" :> total) @@ ("start_index" :> start) @@
            (IF HasKey(ctl, "start_id") \/ HasKey(ctl, "end_id")
             THEN CursorLinks(req, head, ctl, pr, count)
             ELSE IndexNextLink(req, head, ctl, start, total, count)
                  @@ IndexPreviousLink(req, head, start, count))

\* _wrap_paginated_response(request, response, controls, data)
wrap_paginated_response(req, response, ctl, data) ==
    wrap_response(data,
                  ("head" :> response.head_id)
                  @@ ("link" :> build_url(req, response.head_id, NoText, NoText, NoText))
                  @@ ("paging" :> PagingMetadata(req, response, ctl, data)),
                  200)

-----------------------------------------------------------------------------
(* Resource expander: _parse_header, _expand_block, _expand_batch,         *)
(* _expand_transaction                                                     *)

\* A header as message_to_dict leaves it in its entity: the base64 text of the
\* serialized header message.
EncodedHeader(proto, id) == [kind |-> "b64", bytes |-> <<proto, id>>]

\* base64.b64decode, header.ParseFromString, message_to_dict(header): the
\* bytes read as a header_proto message, as a dict.
DecodeHeader(header_proto, text) ==
    [kind |-> "dict", proto |-> header_proto, id |-> text.bytes[2]]

\* _parse_header(header_proto, obj): obj['header'] replaced by its dict
parse_header(header_proto, obj) ==
    [obj EXCEPT !.header = DecodeHeader(header_proto, obj.header)]

\* _expand_transaction(transaction)
expand_transaction(transaction) == parse_header("TransactionHeader", transaction)

\* without the `if 'transactions' in batch` block: only the batch's own
\* header is parsed
expand_batch_header_only(batch) == parse_header("BatchHeader", batch)

\* _expand_batch(batch): its header, then each of its transactions
expand_batch(batch) ==
    LET parsed == parse_header("BatchHeader", batch)
    IN IF HasKey(parsed, "transactions")
       THEN [parsed EXCEPT !.transactions =
                [i \in DOMAIN parsed.transactions |-> expand_transaction(parsed.transactions[i])]]
       ELSE parsed

\* _expand_block(block): its header, then each of its batches
expand_block(block) ==
    LET parsed == parse_header("BlockHeader", block)
    IN IF HasKey(parsed, "batches")
       THEN [parsed EXCEPT !.batches =
                [i \in DOMAIN parsed.batches |-> expand_batch(parsed.batches[i])]]
       ELSE parsed

-----------------------------------------------------------------------------
(* One handler run                                                         *)

DEFAULT_TIMEOUT == 300

FalseText == <<"f", "a", "l", "s", "e">>

\* _set_wait(request, validator_query): wait_for_commit and timeout of the
\* query; both keep their defaults unless wait is given and is not 'false'.
set_wait(req) ==
    LET wait == IF req.wait = NoText THEN FalseText ELSE req.wait
    IN IF Lower(wait) # FalseText
       THEN [wait_for_commit |-> TRUE,
             timeout |-> IF IsIntText(wait) THEN IntOfText(wait)
                         ELSE (DEFAULT_TIMEOUT * 95) \div 100]
       ELSE [wait_for_commit |-> FALSE, timeout |-> 0]

\* _get_filter_ids(request): filter_ids and filter_ids.split(',')
get_filter_ids(req) ==
    IF req.id = NoText \/ req.id = <<>> THEN <<>> ELSE Split(req.id)

NoInputError == "none"

\* submit_batches without the `if not payload` check
SubmitInputErrorNoEmptyCheck(req) ==
    IF req.content_type # "application/octet-stream" THEN "WrongBodyType"
    ELSE IF req.body.kind # "batchlist" /\ req.body.kind # "empty" THEN "BadProtobuf"
    ELSE NoInputError

\* submit_batches, "Parse request": WrongBodyType, EmptyProtobuf, BadProtobuf
SubmitInputError(req) ==
    IF req.content_type # "application/octet-stream" THEN "WrongBodyType"
    ELSE IF req.body.kind = "empty" THEN "EmptyProtobuf"
    ELSE IF req.body.kind # "batchlist" THEN "BadProtobuf"
    ELSE NoInputError

\* list_statuses, "Parse batch ids from POST body, or query parameters"
StatusInputError(req) ==
    IF req.method = "POST"
    THEN IF req.content_type # "application/json" THEN "BadStatusBody"
         ELSE IF req.body.kind = "json_malformed" THEN "JSONDecodeError"
         ELSE IF req.body.kind # "json_list" THEN "BadStatusBody"
         ELSE IF Len(req.body.items) = 0 THEN "MissingStatusId"
         ELSE IF req.body.items[1].type # "str" THEN "BadStatusBody"
         ELSE NoInputError
    ELSE IF req.id = NoText THEN "MissingStatusId"
    ELSE NoInputError

\* The ids list_statuses queries: the POST body, or the id parameter split.
StatusIds(req) ==
    IF req.method = "POST" THEN [i \in 1..Len(req.body.items) |-> req.body.items[i].v]
    ELSE Split(req.id)

\* link = '{}://{}/batch_status?id={}'.format(scheme, host, ','.join(ids)),
\* as its pieces
StatusLink(req) == <<req.scheme, req.host, "batch_status">> \o req.body.items

\* str.replace(old, new): every occurrence is replaced
Replace(link, old, new) == [i \in 1..Len(link) |-> IF link[i] = old THEN new ELSE link[i]]

\* `all` in place of `any`: 200 only when no batch at all is committed
submit_batches_envelope_all(req, response) ==
    LET statuses == response.batch_statuses
        data == IF DOMAIN statuses = {} THEN None ELSE statuses
        link == StatusLink(req)
    IN IF data = None THEN wrap_response(None, "link" :> link, 202)
       ELSE IF \A id \in DOMAIN data : data[id] # "COMMITTED"
       THEN wrap_response(data, "link" :> link, 200)
       ELSE wrap_response(None, "link" :> Replace(link, "batch_status", "batches"), 201)

\* submit_batches, "Build response envelope"
submit_batches_envelope(req, response) ==
    LET statuses == response.batch_statuses
        data == IF DOMAIN statuses = {} THEN None ELSE statuses
        link == StatusLink(req)
    IN IF data = None THEN wrap_response(None, "link" :> link, 202)
       ELSE IF \E id \in DOMAIN data : data[id] # "COMMITTED"
       THEN wrap_response(data, "link" :> link, 200)
       ELSE wrap_response(None, "link" :> Replace(link, "batch_status", "batches"), 201)

\* _get_metadata(request, response): link, and head when the reply has one
get_metadata(req, response) ==
    IF response.head_id = NoHead
    THEN "link" :> build_url(req, NoHead, NoText, NoText, NoText)
    ELSE ("link" :> build_url(req, response.head_id, NoText, NoText, NoText))
         @@ ("head" :> response.head_id)

\* ---- the requests a client may send ----

MaxTotal == 4
MaxData == 3

BatchStatuses == {"COMMITTED", "PENDING"}

Body(kind, items) == [kind |-> kind, items |-> items]
JsonStr(v) == [type |-> "str", v |-> v]
JsonInt(v) == [type |-> "int", v |-> v]

WaitTexts ==
    {NoText, FalseText, <<"F", "A", "L", "S", "E">>, <<"F", "a", "l", "s", "e">>,
     <<"t", "r", "u", "e">>, <<"5">>}

RawCounts ==
    {NoText, <<>>, <<"0">>, <<"0", "0">>, <<"1">>, <<"2">>, <<"-", "1">>, <<"a">>}

RawPositions ==
    {NoText, <<"0">>, <<"1">>, <<"2">>, <<"-", "1">>, <<"b", "1">>}

BaseRequest ==
    [handler |-> "", method |-> "GET", scheme |-> "http", host |-> "localhost:8080",
     content_type |-> "", body |-> Body("none", <<>>), head |-> NoHead,
     wait |-> NoText, id |-> NoText, min |-> NoText, max |-> NoText, count |-> NoText]

SubmitRequests ==
    {[BaseRequest EXCEPT !.handler = "submit_batches", !.method = "POST",
                         !.content_type = ct, !.body = b, !.wait = w] :
        ct \in {"application/octet-stream", "application/json"},
        b \in {Body("empty", <<>>), Body("garbage", <<>>),
               Body("batchlist", <<"b1">>), Body("batchlist", <<"b1", "b2">>)},
        w \in WaitTexts}

StatusRequests ==
    {[BaseRequest EXCEPT !.handler = "list_statuses", !.method = "POST",
                         !.content_type = ct, !.body = b, !.wait = w] :
        ct \in {"application/octet-stream", "application/json"},
        b \in {Body("json_malformed", <<>>), Body("json_object", <<>>),
               Body("json_list", <<>>), Body("json_list", <<JsonInt("7")>>),
               Body("json_list", <<JsonStr("b1")>>),
               Body("json_list", <<JsonStr("b1"), JsonStr("b2")>>)},
        w \in {NoText, <<"5">>}}
    \cup
    {[BaseRequest EXCEPT !.handler = "list_statuses", !.id = i, !.wait = w] :
        i \in {NoText, <<>>, <<"b", "1">>, <<"b", "1", ",", "b", "2">>},
        w \in {NoText, <<"5">>}}

ListRequests ==
    {[BaseRequest EXCEPT !.handler = "list_batches", !.min = mn, !.max = mx, !.count = c] :
        mn \in RawPositions, mx \in RawPositions, c \in RawCounts}

FetchRequests ==
    {[BaseRequest EXCEPT !.handler = h] : h \in {"fetch_batch", "fetch_block"}}

HttpRequests == SubmitRequests \cup StatusRequests \cup ListRequests \cup FetchRequests

\* ---- the replies the backing node may give ----

BaseReply ==
    [status |-> "OK", head_id |-> NoHead, batch_statuses |-> EmptyDict,
     paging |-> [total_resources |-> 0, start_index |-> 0,
                 next_id |-> <<>>, previous_id |-> <<>>],
     data |-> [kind |-> "list", items |-> <<>>]]

Range(f) == {f[i] : i \in DOMAIN f}

StatusMaps(ids) == {EmptyDict} \cup [ids -> BatchStatuses]

\* ---- the entities a reply carries, headers still encoded ----

MaxNested == 2

SeqsUpTo(S, n) == UNION {[1..k -> S] : k \in 0..n}

Transactions == {"header" :> EncodedHeader("TransactionHeader", "t1")}

\* A batch with up to MaxNested transactions, or without the key.
Batches ==
    {"header" :> EncodedHeader("BatchHeader", "b1")}
    \cup
    {("header" :> EncodedHeader("BatchHeader", "b1")) @@ ("transactions" :> ts) :
        ts \in SeqsUpTo(Transactions, MaxNested)}

\* A block with up to MaxNested batches, or without the key.
Blocks ==
    {"header" :> EncodedHeader("BlockHeader", "k1")}
    \cup
    {("header" :> EncodedHeader("BlockHeader", "k1")) @@ ("batches" :> bs) :
        bs \in SeqsUpTo(Batches, MaxNested)}

ListedBatch ==
    ("header" :> EncodedHeader("BatchHeader", "b1"))
    @@ ("transactions" :> <<"header" :> EncodedHeader("TransactionHeader", "t1")>>)

Items(n) == [kind |-> "list", items |-> [i \in 1..n |-> ListedBatch]]

\* The pages a backing node holding `total` resources may return: nothing
\* when it holds nothing (start_index then echoes whatever was asked for),
\* else at least one resource from a start index below the total.
Pages ==
    {[total_resources |-> 0, start_index |-> st, n |-> 0] : st \in 0..(MaxTotal - 1)}
    \cup
    {[total_resources |-> t, start_index |-> st, n |-> n] :
        t \in 1..MaxTotal, st \in 0..(MaxTotal - 1), n \in 1..MaxData}

ValidPages == {pg \in Pages : pg.n <= pg.total_resources - pg.start_index \/ pg.n = 0}

Replies(req) ==
    LET proto == ResponseProto(req.handler)
        failed == {[BaseReply EXCEPT !.status = st] : st \in StatusEnum(proto) \ {"OK"}}
    IN failed \cup
       CASE req.handler = "submit_batches" ->
                {[BaseReply EXCEPT !.batch_statuses = m] : m \in StatusMaps(Range(req.body.items))}
         [] req.handler = "list_statuses" ->
                {[BaseReply EXCEPT !.batch_statuses = m] : m \in StatusMaps({"b1"})}
         [] req.handler = "list_batches" ->
                {[BaseReply EXCEPT !.head_id = "h1",
                                   !.paging = [total_resources |-> pg.total_resources,
                                               start_index |-> pg.start_index,
                                               next_id |-> nx, previous_id |-> pv],
                                   !.data = Items(pg.n)] :
                    pg \in ValidPages, nx \in {<<>>, <<"b", "2">>}, pv \in {<<>>, <<"b", "0">>}}
         [] req.handler = "fetch_batch" -> {[BaseReply EXCEPT !.data = b] : b \in Batches}
         [] req.handler = "fetch_block" -> {[BaseReply EXCEPT !.data = b] : b \in Blocks}

\* ---- the handlers ----

HandlerIdle ==
    /\ hpc = "idle"
    /\ request = None
    /\ controls = EmptyDict
    /\ sent = <<>>
    /\ reply = None
    /\ result = None

\* The HTTP layer dispatches a request to its handler.
Arrive ==
    /\ hpc = "idle"
    /\ \E req \in HttpRequests : request' = req
    /\ hpc' = "received"
    /\ UNCHANGED <<controls, sent, reply, result>>
    /\ UNCHANGED gvars

\* The handler ends before any query: an error is returned or raised.
Reject(kind) ==
    /\ result' = Error(kind)
    /\ hpc' = "done"
    /\ UNCHANGED <<request, sent, reply>>

\* _query_validator up to the await in _try_validator_request: one send.
QueryValidator(query) ==
    /\ sent' = Append(sent, query)
    /\ hpc' = "awaiting"
    /\ UNCHANGED <<request, reply, result>>

\* submit_batches up to its await
SubmitBatchesRequest ==
    /\ hpc = "received"
    /\ request.handler = "submit_batches"
    /\ IF SubmitInputError(request) # NoInputError
       THEN Reject(SubmitInputError(request))
       ELSE QueryValidator([message_type |-> "CLIENT_BATCH_SUBMIT_REQUEST",
                            batches |-> request.body.items,
                            wait |-> set_wait(request)])
    /\ UNCHANGED controls
    /\ UNCHANGED gvars

\* list_statuses up to its await
ListStatusesRequest ==
    /\ hpc = "received"
    /\ request.handler = "list_statuses"
    /\ IF StatusInputError(request) # NoInputError
       THEN Reject(StatusInputError(request))
       ELSE QueryValidator([message_type |-> "CLIENT_BATCH_STATUS_REQUEST",
                            batch_ids |-> StatusIds(request),
                            wait |-> set_wait(request)])
    /\ UNCHANGED controls
    /\ UNCHANGED gvars

\* list_batches up to its await (list_state, list_blocks and
\* list_transactions page the same way)
ListBatchesRequest ==
    /\ hpc = "received"
    /\ request.handler = "list_batches"
    /\ LET parsed == get_paging_controls(request) IN
        IF IsError(parsed)
        THEN Reject(parsed.error) /\ UNCHANGED controls
        ELSE /\ controls' = parsed.controls
             /\ QueryValidator([message_type |-> "CLIENT_BATCH_LIST_REQUEST",
                                head_id |-> request.head,
                                batch_ids |-> get_filter_ids(request),
                                paging |-> make_paging_message(parsed.controls)])
    /\ UNCHANGED gvars

\* fetch_batch up to its await
FetchBatchRequest ==
    /\ hpc = "received"
    /\ request.handler = "fetch_batch"
    /\ QueryValidator([message_type |-> "CLIENT_BATCH_GET_REQUEST", batch_id |-> "b1"])
    /\ UNCHANGED controls
    /\ UNCHANGED gvars

\* fetch_block up to its await
FetchBlockRequest ==
    /\ hpc = "received"
    /\ request.handler = "fetch_block"
    /\ QueryValidator([message_type |-> "CLIENT_BLOCK_GET_REQUEST", block_id |-> "k1"])
    /\ UNCHANGED controls
    /\ UNCHANGED gvars

\* The correlated reply arrives.
ReplyArrives ==
    /\ hpc = "awaiting"
    /\ \E rp \in Replies(request) : reply' = rp
    /\ hpc' = "replied"
    /\ UNCHANGED <<request, controls, sent, result>>
    /\ UNCHANGED gvars

\* The timeout elapses or the transport disconnects first:
\* errors.ValidatorUnavailable is raised.
NoReply ==
    /\ hpc = "awaiting"
    /\ result' = Error("ValidatorUnavailable")
    /\ hpc' = "done"
    /\ UNCHANGED <<request, controls, sent, reply>>
    /\ UNCHANGED gvars

\* The rest of a handler: the reply parsed against the traps, then the
\* handler's envelope.
Respond(envelope) ==
    LET parsed == try_response_parse(ResponseProto(request.handler), reply,
                                     HandlerTraps(request.handler))
    IN /\ result' = IF IsError(parsed) THEN parsed ELSE envelope
       /\ hpc' = "done"
       /\ UNCHANGED <<request, controls, sent, reply>>
       /\ UNCHANGED gvars

SubmitBatchesResponse ==
    /\ hpc = "replied"
    /\ request.handler = "submit_batches"
    /\ Respond(submit_batches_envelope(request, reply))

ListStatusesResponse ==
    /\ hpc = "replied"
    /\ request.handler = "list_statuses"
    /\ Respond(wrap_response(reply.batch_statuses,
                             IF request.method # "POST" THEN get_metadata(request, reply)
                             ELSE EmptyDict,
                             200))

ListBatchesResponse ==
    /\ hpc = "replied"
    /\ request.handler = "list_batches"
    /\ Respond(wrap_paginated_response(
                   request, reply, controls,
                   [kind |-> "list",
                    items |-> [i \in DOMAIN reply.data.items |->
                                  expand_batch(reply.data.items[i])]]))

FetchBatchResponse ==
    /\ hpc = "replied"
    /\ request.handler = "fetch_batch"
    /\ Respond(wrap_response(expand_batch(reply.data), get_metadata(request, reply), 200))

FetchBlockResponse ==
    /\ hpc = "replied"
    /\ request.handler = "fetch_block"
    /\ Respond(wrap_response(expand_block(reply.data), get_metadata(request, reply), 200))

HandlerNext ==
    \/ Arrive
    \/ SubmitBatchesRequest
    \/ ListStatusesRequest
    \/ ListBatchesRequest
    \/ FetchBatchRequest
    \/ FetchBlockRequest
    \/ ReplyArrives
    \/ NoReply
    \/ SubmitBatchesResponse
    \/ ListStatusesResponse
    \/ ListBatchesResponse
    \/ FetchBatchResponse
    \/ FetchBlockResponse

HandlerInit == GatewayInit /\ HandlerIdle

HandlerSpec == HandlerInit /\ [][HandlerNext]_vars

-----------------------------------------------------------------------------

Init == GatewayInit /\ HandlerIdle

Next ==
    \/ \E r \in Requests : Send(r)
    \/ ValidatorReply
    \/ Disconnect
    \/ \E r \in Requests : Timeout(r)
    \/ \E r \in Requests : Resolve(r)

Spec == Init /\ [][Next]_vars

\* The executor thread running future.result(self._timeout) always returns
\* or times out: the wait is bounded by the configured timeout.
FairSpec == Spec /\ \A r \in Requests : WF_vars(Await(r))

-----------------------------------------------------------------------------
(* A client walking a listing by its next links                            *)

MaxWalkTotal == 12

WalkCounts == 1..MaxData
WalkTotals == 1..MaxWalkTotal

\* The first request of the walk: a count, no min, no max.
WalkStart ==
    /\ hpc = "idle"
    /\ \E c \in WalkCounts :
         request' = [BaseRequest EXCEPT !.handler = "list_batches", !.count = TextOfInt(c)]
    /\ hpc' = "received"
    /\ UNCHANGED <<controls, sent, reply, result>>
    /\ UNCHANGED gvars

\* The page of a node that holds `total` resources, for the paging message
\* msg: the requested start_index echoed, and up to msg.count resources from
\* there.
PageFor(msg, total) ==
    LET left == IF total > msg.start_index THEN total - msg.start_index ELSE 0
        n == IF msg.count < left THEN msg.count ELSE left
    IN [BaseReply EXCEPT !.head_id = "h1",
                         !.paging = [total_resources |-> total,
                                     start_index |-> msg.start_index,
                                     next_id |-> <<>>, previous_id |-> <<>>],
                         !.data = Items(n)]

\* The node answers the last query; it holds the same resources for the
\* whole walk.
WalkReply ==
    /\ hpc = "awaiting"
    /\ \E total \in WalkTotals :
         /\ reply # None => total = reply.paging.total_resources
         /\ reply' = PageFor(sent[Len(sent)].paging, total)
    /\ hpc' = "replied"
    /\ UNCHANGED <<request, controls, sent, result>>
    /\ UNCHANGED gvars

\* The client requests the URL of the next link: its query parameters are
\* the next request's.
WalkFollow ==
    /\ hpc = "done"
    /\ result.kind = "response"
    /\ HasKey(result.envelope.paging, "next")
    /\ LET url == result.envelope.paging.next
       IN request' = [request EXCEPT !.head = url.head, !.min = url.min,
                                     !.max = url.max, !.count = url.count,
                                     !.id = url.id]
    /\ hpc' = "received"
    /\ result' = None
    /\ UNCHANGED <<controls, sent, reply>>
    /\ UNCHANGED gvars

WalkNext ==
    \/ WalkStart
    \/ ListBatchesRequest
    \/ WalkReply
    \/ ListBatchesResponse
    \/ WalkFollow

WalkInit == GatewayInit /\ HandlerIdle

\* The client keeps following links and the node keeps answering.
WalkSpec == WalkInit /\ [][WalkNext]_vars /\ WF_vars(WalkNext)

-----------------------------------------------------------------------------
(* Claims about the gateway                                                *)

\* Request a times out in this step.
TimeoutStep(a) ==
    /\ pc[a] = "awaiting"
    /\ outcome[a] = None
    /\ futures[future[a]] = Unset
    /\ outcome'[a] # None

\* C1: with any number of queries in flight and any interleaving of replies
\* and timeouts, a request that returns content returns the reply correlated
\* with its own send (the reply to the query it sent, under the correlation
\* id its send was given), and a timeout of request a changes nothing of any
\* other request: not its position, its outcome, its future, nor what the
\* Stream and the backing node hold for it.
C1_OwnReplyOnly ==
    /\ [](\A r \in Requests :
            outcome[r].kind = "content" =>
                /\ outcome[r].corr = future[r]
                /\ outcome[r].content = ReplyTo(content[r]))
    /\ [][\A a \in Requests :
            TimeoutStep(a) =>
                /\ outcome'[a] = ServiceUnavailable
                /\ \A b \in Requests \ {a} :
                    /\ pc'[b] = pc[b]
                    /\ outcome'[b] = outcome[b]
                    /\ future'[b] = future[b]
                /\ futures' = futures
                /\ network' = network]_vars

\* Request a was sent first and timed out, request b was sent later and
\* returned its reply, with the transport still connected.
C1_Witness ==
    \E a, b \in Requests :
        /\ a # b
        /\ connected
        /\ 0 < future[a] /\ future[a] < future[b]
        /\ outcome[a] = ServiceUnavailable
        /\ outcome[b].kind = "content"

OutcomeKinds == {"content", "ServiceUnavailable"}

\* C2: every query sent yields exactly one outcome, eventually: the content
\* of its correlated reply, or ServiceUnavailable when the timeout elapses
\* first or a disconnect resolved its future to FutureError. The query is
\* sent exactly once, the outcome once set never changes, and no other kind
\* of failure comes out.
C2_ExactlyOneOutcome ==
    /\ [](\A r \in Requests :
            /\ sends[r] = (IF pc[r] = "ready" THEN 0 ELSE 1)
            /\ (pc[r] = "done") <=> (outcome[r] # None)
            /\ outcome[r] # None => outcome[r].kind \in OutcomeKinds)
    /\ [][\A r \in Requests :
            /\ outcome[r] # None => outcome'[r] = outcome[r]
            /\ (outcome[r] = None /\ outcome'[r] # None) =>
                  outcome'[r] = (IF futures[future[r]].kind = "FutureResult"
                                 THEN Returned(futures[future[r]])
                                 ELSE ServiceUnavailable)]_vars
    /\ \A r \in Requests : (pc[r] = "awaiting") ~> (pc[r] = "done")

\* One request ended on a disconnect, one on a timeout, one on its reply.
C2_Witness ==
    \E a, b, c \in Requests :
        /\ outcome[a] = ServiceUnavailable /\ futures[future[a]] = FutureError
        /\ outcome[b] = ServiceUnavailable /\ futures[future[b]] = Unset
        /\ outcome[c].kind = "content"

-----------------------------------------------------------------------------
(* Claims about the handlers                                               *)

FalseVariants ==
    {FalseText, <<"F", "A", "L", "S", "E">>, <<"F", "a", "l", "s", "e">>}

\* The client asked not to wait: wait absent, or 'false' in some letter case.
NoWait(req) == req.wait = NoText \/ req.wait \in FalseVariants

\* submit_batches answered the client with an envelope.
SubmitAnswered ==
    /\ hpc = "done"
    /\ request.handler = "submit_batches"
    /\ result.kind = "response"

BatchStatusLink(req) == <<req.scheme, req.host, "batch_status">> \o req.body.items
BatchesLink(req) == <<req.scheme, req.host, "batches">> \o req.body.items

\* C3: submit_batches with wait requested and a reply whose status map is
\* over the submitted ids: all COMMITTED gives 201, no data key and the
\* batches link; any id not COMMITTED gives 200, data equal to the map as
\* returned, and the batch_status link.
C3_WaitOutcome ==
    (/\ SubmitAnswered
     /\ ~NoWait(request)
     /\ DOMAIN reply.batch_statuses = Range(request.body.items))
    =>
    IF \A id \in DOMAIN reply.batch_statuses : reply.batch_statuses[id] = "COMMITTED"
    THEN /\ result.status = 201
         /\ ~HasKey(result.envelope, "data")
         /\ result.envelope.link = BatchesLink(request)
    ELSE /\ result.status = 200
         /\ HasKey(result.envelope, "data")
         /\ result.envelope.data = reply.batch_statuses
         /\ result.envelope.link = BatchStatusLink(request)

\* Two batches submitted with wait, both reported COMMITTED, answered 201.
C3_Witness ==
    /\ SubmitAnswered
    /\ ~NoWait(request)
    /\ sent[1].wait.wait_for_commit
    /\ Len(request.body.items) = 2
    /\ DOMAIN reply.batch_statuses = Range(request.body.items)
    /\ \A id \in DOMAIN reply.batch_statuses : reply.batch_statuses[id] = "COMMITTED"
    /\ result.status = 201

\* C4: submit_batches with no wait requested: the query does not set
\* wait_for_commit, and whatever the successful reply contains the response
\* is 202 with no data key and the batch_status link over every submitted id.
C4_NoWaitAccepted ==
    (request # None /\ request.handler = "submit_batches" /\ NoWait(request)) =>
        /\ sent # <<>> => ~sent[1].wait.wait_for_commit
        /\ SubmitAnswered =>
            /\ result.status = 202
            /\ ~HasKey(result.envelope, "data")
            /\ result.envelope.link = BatchStatusLink(request)

\* The traps registered for the request's reply: the handler's, then the
\* common ones the reply type defines.
RegisteredTraps ==
    HandlerTraps(request.handler) \o CommonTraps(ResponseProto(request.handler))

Replied == hpc = "done" /\ reply # None

\* C5 as stated: a reply with a non-OK status that no registered trap matches
\* surfaces as the Unknown failure, and a non-OK status never yields a
\* decoded record.
C5_UnmatchedIsUnknown ==
    (Replied /\ reply.status # "OK") =>
        /\ result.kind = "error"
        /\ FirstMatch(RegisteredTraps, reply.status) = 0 => result = Error("Unknown")

\* C5 as amended: the registered traps alone decide. A status matched by a
\* registered trap fails with the kind of the first such trap; a status no
\* registered trap matches, OK or not, yields the decoded record. Unknown
\* comes from INTERNAL_ERROR only.
C5_TrapsDecide ==
    Replied =>
        LET hit == FirstMatch(RegisteredTraps, reply.status) IN
        /\ hit # 0 => result = Error(RegisteredTraps[hit].kind)
        /\ hit = 0 => result.kind = "response"
        /\ result = Error("Unknown") <=> reply.status = "INTERNAL_ERROR"

\* A list reply with status NO_RESOURCE, which no trap matches, answered
\* with an envelope.
C5_Witness ==
    /\ Replied
    /\ request.handler = "list_batches"
    /\ reply.status = "NO_RESOURCE"
    /\ FirstMatch(RegisteredTraps, reply.status) = 0
    /\ result.kind = "response"

\* Text of a non-negative integer: digits only.
IsNonNegIntText(t) == IsDigits(t)

\* An offset below zero.
IsNegativeIntText(t) == Len(t) > 1 /\ t[1] = "-" /\ IsDigits(Tail(t)) /\ DigitsValue(Tail(t)) > 0

\* The input errors the handlers check themselves.
CheckedInputError(req) ==
    CASE req.handler = "submit_batches" ->
            \/ req.content_type # "application/octet-stream"
            \/ req.body.kind \in {"empty", "garbage"}
      [] req.handler = "list_statuses" ->
            IF req.method = "POST"
            THEN \/ req.content_type # "application/json"
                 \/ req.body.kind # "json_list"
                 \/ req.body.items = <<>>
                 \/ req.body.items[1].type # "str"
            ELSE req.id = NoText
      [] req.handler = "list_batches" ->
            \/ req.count = <<"0">>
            \/ req.count # NoText /\ ~IsIntText(req.count)
      [] OTHER -> FALSE

\* The input errors of the claim: the above, a count that is not the text of
\* a non-negative integer, and a min or max that is a negative offset.
ClaimedInputError(req) ==
    \/ CheckedInputError(req)
    \/ req.handler = "list_batches" /\
        \/ req.count # NoText /\ ~IsNonNegIntText(req.count)
        \/ IsNegativeIntText(req.min)
        \/ IsNegativeIntText(req.max)

-----------------------------------------------------------------------------
(* Claims about paging                                                     *)

\* A list request whose paging controls were parsed and whose query was sent.
ListSent ==
    /\ hpc \in {"awaiting", "replied", "done"}
    /\ request.handler = "list_batches"
    /\ sent # <<>>

\* A list request _get_paging_controls has dealt with.
ListParsed ==
    /\ hpc \in {"awaiting", "replied", "done"}
    /\ request.handler = "list_batches"

IndexKeys == {"start_index", "end_index"}
CursorKeys == {"start_id", "end_id"}

\* C7: whatever min, max and count are, the controls _get_paging_controls
\* returns never hold an index field together with a cursor field.
C7_IndexXorCursor ==
    ListSent => ~(DOMAIN controls \cap IndexKeys # {} /\ DOMAIN controls \cap CursorKeys # {})

\* min is an integer and max a cursor id: the controls hold start_index only.
C7_Witness ==
    /\ ListSent
    /\ request.min = <<"1">>
    /\ request.max = <<"b", "1">>
    /\ HasKey(controls, "start_index")
    /\ DOMAIN controls \cap CursorKeys = {}

\* C8: whatever min and max are, _get_paging_controls fails with BadCount
\* when count is '0' and when count is given and is not the text of a
\* non-negative integer, and it sets count only for the text of a
\* non-negative integer other than '0'.
C8_CountValidation ==
    ListParsed =>
        /\ (request.count = <<"0">> \/
            (request.count # NoText /\ ~IsNonNegIntText(request.count)))
           => result = Error("BadCount")
        /\ HasKey(controls, "count")
           => (IsNonNegIntText(request.count) /\ request.count # <<"0">>)

\* C9: with end_index = E >= 0: count = C >= 1 and C <= E + 1 gives
\* start_index = E + 1 - C and count C; C > E + 1 gives start_index 0 and
\* count E + 1; no count gives start_index 0 and count E. Whenever the
\* controls hold a count the window start_index .. start_index + count - 1
\* ends at E.
C9_EndIndexWindow ==
    (/\ ListSent
     /\ HasKey(controls, "end_index")
     /\ controls.end_index >= 0
     /\ HasKey(controls, "count") => controls.count >= 1)
    =>
    LET E == controls.end_index
        msg == sent[1].paging
    IN IF ~HasKey(controls, "count")
       THEN msg.start_index = 0 /\ msg.count = E
       ELSE /\ controls.count <= E + 1 =>
                msg.start_index = E + 1 - controls.count /\ msg.count = controls.count
            /\ controls.count > E + 1 =>
                msg.start_index = 0 /\ msg.count = E + 1
            /\ msg.start_index + msg.count - 1 = E

\* max=0 with count=2: the count overshoots and is clamped to one item.
C9_Witness ==
    /\ ListSent
    /\ HasKey(controls, "end_index") /\ controls.end_index = 0
    /\ HasKey(controls, "count") /\ controls.count = 2
    /\ sent[1].paging.start_index = 0
    /\ sent[1].paging.count = 1

\* An index-mode list response over at least one resource.
IndexResponse ==
    /\ hpc = "done"
    /\ request.handler = "list_batches"
    /\ result.kind = "response"
    /\ DOMAIN controls \cap CursorKeys = {}
    /\ reply.paging.total_resources > 0

\* C10 as stated: in index mode with T > 0, next is emitted iff S + C < T and
\* previous iff S - C >= 0, for a request that used min and for one that
\* used max alike.
C10_NextIffStartPlusCount ==
    IndexResponse =>
        LET T == reply.paging.total_resources
            S == reply.paging.start_index
            C == PageCount(controls, reply.data)
            paging == result.envelope.paging
        IN /\ HasKey(paging, "next") <=> S + C < T
           /\ HasKey(paging, "previous") <=> S - C >= 0

\* C10 as amended: previous is emitted iff S - C >= 0; next is emitted iff
\* S + C < T when the request gave no max, and iff E + 1 < T when it gave
\* max = E (end_index). next leads to min = S + C, or E + 1; previous to
\* min = S - C; both carry count = C.
C10_NextByMode ==
    IndexResponse =>
        LET T == reply.paging.total_resources
            S == reply.paging.start_index
            C == PageCount(controls, reply.data)
            paging == result.envelope.paging
            nextAt == IF HasKey(controls, "end_index") THEN controls.end_index + 1 ELSE S + C
        IN /\ HasKey(paging, "next") <=> nextAt < T
           /\ HasKey(paging, "next") =>
                paging.next.min = TextOfInt(nextAt) /\ paging.next.count = TextOfInt(C)
           /\ HasKey(paging, "previous") <=> S - C >= 0
           /\ HasKey(paging, "previous") =>
                paging.previous.min = TextOfInt(S - C) /\ paging.previous.count = TextOfInt(C)

\* max=0 with count=2 over two resources: next is emitted, to min=1, although
\* S + C = T.
C10_Witness ==
    /\ IndexResponse
    /\ HasKey(controls, "end_index") /\ controls.end_index = 0
    /\ HasKey(controls, "count") /\ controls.count = 2
    /\ reply.paging.start_index = 0
    /\ reply.paging.total_resources = 2
    /\ HasKey(result.envelope.paging, "next")
    /\ result.envelope.paging.next.min = <<"1">>

\* A list response: the envelope _wrap_paginated_response built.
ListResponse ==
    /\ hpc = "done"
    /\ request.handler = "list_batches"
    /\ result.kind = "response"

\* C11: for every list response with total_resources = 0, whatever the paging
\* controls and whatever start_index, next_id and previous_id the paging
\* response carries, the paging metadata is exactly {total_count: 0}: no
\* start_index, next or previous key.
C11_EmptyListingPaging ==
    (ListResponse /\ reply.paging.total_resources = 0)
    => /\ DOMAIN result.envelope.paging = {"total_count"}
       /\ result.envelope.paging.total_count = 0

\* A cursor-mode request answered with no resources but with a start_index
\* and both cursor ids set: only total_count is emitted.
C11_Witness ==
    /\ ListResponse
    /\ HasKey(controls, "start_id")
    /\ HasKey(controls, "count")
    /\ reply.paging.total_resources = 0
    /\ reply.paging.start_index = 2
    /\ reply.paging.next_id # <<>>
    /\ reply.paging.previous_id # <<>>
    /\ DOMAIN result.envelope.paging = {"total_count"}

\* The page of the reply is the page the query asked for: it starts at the
\* requested start_index and holds the requested number of resources, or all
\* that remain when fewer remain or when no count was sent (count = 0 is the
\* unset value of the field).
RequestedPage ==
    LET msg == sent[1].paging
        T == reply.paging.total_resources
        S == reply.paging.start_index
        n == Len(reply.data.items)
    IN /\ msg.start_index >= 0
       /\ msg.count >= 0
       /\ S = msg.start_index
       /\ n = IF msg.count = 0 \/ msg.count > T - S THEN T - S ELSE msg.count

\* C12: for every list response built from controls _get_paging_controls
\* accepted, next is emitted only when a resource exists after the returned
\* page (an index above the page's last index and below total_resources) and
\* previous only when one exists before it (start_index > 0).
C12_LinksOnlyToMoreData ==
    (IndexResponse /\ RequestedPage) =>
        LET T == reply.paging.total_resources
            S == reply.paging.start_index
            last == S + Len(reply.data.items) - 1
            paging == result.envelope.paging
        IN /\ HasKey(paging, "next") => \E i \in 0..(T - 1) : i > last
           /\ HasKey(paging, "previous") => S > 0

-----------------------------------------------------------------------------
(* Claims about the resource expander                                      *)

\* The header is the decoded dict of the entity's own header type.
HeaderDecoded(entity, proto) ==
    entity.header.kind = "dict" /\ entity.header.proto = proto

TransactionExpanded(t) == HeaderDecoded(t, "TransactionHeader")

BatchExpanded(b) ==
    /\ HeaderDecoded(b, "BatchHeader")
    /\ HasKey(b, "transactions") =>
         \A i \in DOMAIN b.transactions : TransactionExpanded(b.transactions[i])

BlockExpanded(k) ==
    /\ HeaderDecoded(k, "BlockHeader")
    /\ HasKey(k, "batches") => \A i \in DOMAIN k.batches : BatchExpanded(k.batches[i])

\* A handler answered with expanded data.
Expanded(handler) ==
    /\ hpc = "done"
    /\ request.handler = handler
    /\ result.kind = "response"

\* C13: after _expand_block, _expand_batch or _expand_transaction returns,
\* the entity's header and the header of every entity nested in it (each
\* batch of a block, each transaction of a batch) is the decoded dict: no
\* entity reachable from the result keeps an encoded header. The nesting of
\* the entity is unchanged.
C13_HeadersDecoded ==
    /\ Expanded("fetch_block") =>
         /\ BlockExpanded(result.envelope.data)
         /\ DOMAIN result.envelope.data = DOMAIN reply.data
         /\ HasKey(reply.data, "batches") =>
              /\ Len(result.envelope.data.batches) = Len(reply.data.batches)
              /\ \A i \in DOMAIN reply.data.batches :
                    DOMAIN result.envelope.data.batches[i] = DOMAIN reply.data.batches[i]
    /\ Expanded("fetch_batch") =>
         /\ BatchExpanded(result.envelope.data)
         /\ DOMAIN result.envelope.data = DOMAIN reply.data
    /\ Expanded("list_batches") =>
         /\ Len(result.envelope.data.items) = Len(reply.data.items)
         /\ \A i \in DOMAIN result.envelope.data.items :
               BatchExpanded(result.envelope.data.items[i])

\* A block of two batches, the second holding two transactions, was fetched
\* and expanded: the transactions' headers were encoded in the reply and are
\* decoded in the response.
C13_Witness ==
    /\ Expanded("fetch_block")
    /\ HasKey(reply.data, "batches")
    /\ Len(reply.data.batches) = 2
    /\ ~HasKey(reply.data.batches[1], "transactions")
    /\ HasKey(reply.data.batches[2], "transactions")
    /\ Len(reply.data.batches[2].transactions) = 2
    /\ reply.data.batches[2].transactions[2].header.kind = "b64"
    /\ result.envelope.data.batches[2].transactions[2].header.kind = "dict"
    /\ result.envelope.data.batches[2].header.kind = "dict"
    /\ result.envelope.data.header.kind = "dict"

-----------------------------------------------------------------------------
(* Claims about walking a listing                                          *)

\* The walk is under way: at least one query was sent.
Walking == request # None /\ sent # <<>>

\* The window query i asked for.
WindowStart(i) == sent[i].paging.start_index
WindowCount(i) == sent[i].paging.count

\* The last response carried no next link.
WalkEnded ==
    /\ hpc = "done"
    /\ result.kind = "response"
    /\ ~HasKey(result.envelope.paging, "next")

\* The windows requested so far are 0, C, 2C, ... with count C, where C is
\* the count of the request; every window but the last ends before the
\* total; a response carries a next link exactly while start_index + C is
\* below the total; when the walk has ended every index below the total lies
\* in exactly one window.
WalkWindows ==
    Walking =>
        LET C == IntOfText(request.count)
        IN /\ C \in WalkCounts
           /\ request.max = NoText
           /\ \A i \in 1..Len(sent) : WindowStart(i) = (i - 1) * C /\ WindowCount(i) = C
           /\ reply # None =>
                LET T == reply.paging.total_resources
                IN /\ \A i \in 1..(Len(sent) - 1) : WindowStart(i) + C < T
                   /\ (hpc = "done" /\ result.kind = "response") =>
                        /\ reply.paging.start_index = WindowStart(Len(sent))
                        /\ HasKey(result.envelope.paging, "next")
                           <=> WindowStart(Len(sent)) + C < T
                   /\ WalkEnded =>
                        /\ WindowStart(Len(sent)) + C >= T
                        /\ \A x \in 0..(T - 1) :
                             Cardinality({i \in 1..Len(sent) :
                                 WindowStart(i) <= x /\ x < WindowStart(i) + C}) = 1

\* C14: in index mode with a fixed count C >= 1 and T > 0 resources, starting
\* from a list request with no min and no max and following each next link
\* (parsed by _get_paging_controls, encoded by _make_paging_message, the node
\* echoing the requested start_index) requests the windows starting at 0, C,
\* 2C, ... each once with the same count, and the walk ends, at the first
\* window with start_index + C >= T, so that every index in 0..T-1 lies in
\* exactly one visited window.
C14_WalkCoversListing == []WalkWindows /\ <>WalkEnded

\* Five resources walked two at a time: the windows 0, 2 and 4 were
\* requested and the last response has no next link.
C14_Witness ==
    /\ WalkEnded
    /\ request.count = <<"2">>
    /\ reply.paging.total_resources = 5
    /\ Len(sent) = 3
    /\ WindowStart(3) = 4
    /\ request.min = <<"4">>
    /\ HasKey(result.envelope.paging, "previous")

====
